---- MODULE Spec2Model ----
(***************************************************************************)
(* A model of clinical_assistant.py: the one-time setup (make_assistant:   *)
(* get_drug_info, the dataset file, the remote assistant and its file) and *)
(* one question (ask_assistant: thread, user message, run, the poll loop   *)
(* of wait_on_run, the message list and its printing), as the entry point  *)
(* runs them.  The two remote services are the environment: the search API *)
(* answers with any status code and body, every remote call of the setup   *)
(* may fail, and the assistant service moves the Run through its statuses  *)
(* and appends assistant messages on its own schedule.  The remote calls   *)
(* of ask_assistant are taken to return, and every message to carry a text *)
(* segment first.                                                          *)
(*                                                                         *)
(* Text is a sequence of tokens, so that formatting (the f-string of       *)
(* get_drug_info), parsing (response.json) and serialising (json.dump) are *)
(* computed and not assumed.                                               *)
(***************************************************************************)
EXTENDS Integers, Sequences, FiniteSets, TLC

VARIABLES
    pc,               \* position of the single thread of control
    response,         \* the requests.Response of get_drug_info
    results,          \* make_assistant's local `results`
    dataset,          \* content of data/dataset.json
    assistants,       \* remote: the assistants of the account
    files,            \* remote: the uploaded files
    assistant,        \* id of the assistant object make_assistant holds
    file,             \* id of the file object make_assistant holds
    raised_by,        \* the step whose exception ended the process
    threads,          \* remote: the thread ids
    thread_messages,  \* remote: the messages of all threads
    runs,             \* remote: the runs
    now,              \* remote: the clock that stamps created_at
    user_input,       \* the question given to ask_assistant
    thread,           \* id of the thread object ask_assistant holds
    run,              \* the run object wait_on_run holds: [id, status]
    messages,         \* ask_assistant's local `messages`
    output,           \* lines printed so far
    ret,              \* what ask_assistant returned
    calls             \* log of the outbound calls, oldest first

vars == <<pc, response, results, dataset, assistants, files, assistant, file,
          raised_by, threads, thread_messages, runs, now, user_input, thread,
          run, messages, output, ret, calls>>

setup_vars == <<response, results, dataset, assistants, files, assistant, file>>
ask_vars == <<threads, thread_messages, runs, now, user_input, thread, run,
              messages, output, ret>>

----------------------------------------------------------------------------
(* Bounds *)

\* retrieves kept in the log of calls
MaxPolls == 3
\* assistant messages the remote job appends to a thread
MaxAssistantMsgs == 2

----------------------------------------------------------------------------
(* The search API's answers *)

StatusCodes == {200, 404, 500}

RecordsBody == <<"{", "results", "}">>
ErrorBody == <<"{", "error", "}">>
PlainBody == <<"Not Found">>
QuotedBody == <<"\"", "Error: ", "404", " - ", "Not Found", "\"">>

Bodies == {RecordsBody, ErrorBody, PlainBody, QuotedBody}

None == [kind |-> "None", val |-> <<>>]
JSONDecodeError == [kind |-> "JSONDecodeError", val |-> <<>>]

\* response.json(): a JSON object, a JSON string, or no JSON at all
json_loads(text) ==
    IF Len(text) >= 2 /\ text[1] = "{" /\ text[Len(text)] = "}"
    THEN [kind |-> "dict", val |-> SubSeq(text, 2, Len(text) - 1)]
    ELSE IF Len(text) >= 2 /\ text[1] = "\"" /\ text[Len(text)] = "\""
         THEN [kind |-> "str", val |-> SubSeq(text, 2, Len(text) - 1)]
         ELSE JSONDecodeError

\* json.dump(results, outfile)
json_dumps(v) ==
    IF v.kind = "dict"
    THEN <<"{">> \o v.val \o <<"}">>
    ELSE <<"\"">> \o v.val \o <<"\"">>

\* the return value of get_drug_info for a response
get_drug_info(status_code, text) ==
    IF status_code = 200
    THEN json_loads(text)
    ELSE [kind |-> "str",
          val |-> <<"Error: ", ToString(status_code), " - ">> \o text]

----------------------------------------------------------------------------
(* The assistant service *)

Statuses == {"queued", "in_progress", "completed", "failed", "cancelled",
             "expired", "requires_action"}

NextStatuses(s) ==
    CASE s = "queued" -> {"in_progress", "failed", "cancelled", "expired"}
      [] s = "in_progress" -> {"completed", "failed", "cancelled", "expired",
                               "requires_action"}
      [] OTHER -> {}

Questions == {"What are the most effective treatments for prostatitis?",
              "Which drugs are contraindicated?"}

Call(op, t, a, s) == [op |-> op, thread |-> t, assistant |-> a, status |-> s]

NumCalls(log, op) == Cardinality({i \in 1..Len(log) : log[i].op = op})

\* The log keeps the first MaxPolls retrieves of a poll loop; a later one
\* takes the place of the last, so the log always ends with the latest.
Log(e) ==
    IF e.op = "threads.runs.retrieve"
       /\ NumCalls(calls, "threads.runs.retrieve") >= MaxPolls
    THEN [calls EXCEPT ![Len(calls)] = e]
    ELSE Append(calls, e)

ThreadMessages(tid) == {m \in thread_messages : m.thread_id = tid}

RECURSIVE SortAsc(_)
SortAsc(S) ==
    IF S = {} THEN <<>>
    ELSE LET m == CHOOSE x \in S : \A y \in S : x.created_at <= y.created_at
         IN <<m>> \o SortAsc(S \ {m})

Reverse(s) == [i \in 1..Len(s) |-> s[Len(s) + 1 - i]]

\* client.beta.threads.messages.list(thread_id=..., order=...)
messages_list(tid, order) ==
    IF order = "asc" THEN SortAsc(ThreadMessages(tid))
    ELSE Reverse(SortAsc(ThreadMessages(tid)))

get_response_desc(tid) == messages_list(tid, "desc")

get_response(tid) == messages_list(tid, "asc")

\* the lines pretty_print writes
pretty_print(ms) ==
    <<"# Messages">>
    \o [i \in 1..Len(ms) |-> <<ms[i].role, ": ", ms[i].content[1].value>>]
    \o <<"">>

ShouldPoll_InProgressOnly(status) == status = "in_progress"

ShouldPoll_QueuedOnly(status) == status = "queued"

\* the loop condition of wait_on_run
ShouldPoll(status) == status \in {"queued", "in_progress"}

update_file_ids_none(f) == <<>>

\* the file_ids argument of assistants.update
update_file_ids(f) == <<f>>

----------------------------------------------------------------------------
Init ==
    /\ pc = "get_drug_info"
    /\ response = [status_code |-> 0, text |-> <<>>]
    /\ results = None
    /\ dataset = <<>>
    /\ assistants = {}
    /\ files = {}
    /\ assistant = "-"
    /\ file = "-"
    /\ raised_by = "-"
    /\ threads = {}
    /\ thread_messages = {}
    /\ runs = {}
    /\ now = 1
    /\ user_input = "-"
    /\ thread = "-"
    /\ run = [id |-> "-", status |-> "-"]
    /\ messages = <<>>
    /\ output = <<>>
    /\ ret = "-"
    /\ calls = <<>>

----------------------------------------------------------------------------
(* make_assistant *)

\* results = get_drug_info(indication)
Fetch ==
    /\ pc = "get_drug_info"
    /\ \E code \in StatusCodes, text \in Bodies :
         LET r == get_drug_info(code, text) IN
         /\ response' = [status_code |-> code, text |-> text]
         /\ calls' = Log(Call("requests.get", "-", "-", ToString(code)))
         /\ IF r = JSONDecodeError
            THEN /\ pc' = "raised"
                 /\ raised_by' = "response.json"
                 /\ results' = results
            ELSE /\ pc' = "open_write"
                 /\ raised_by' = raised_by
                 /\ results' = r
    /\ UNCHANGED <<dataset, assistants, files, assistant, file>>
    /\ UNCHANGED ask_vars

\* an added guard that refuses to package an error string
WriteDataset_RejectError ==
    /\ pc = "open_write"
    /\ IF results.kind = "str"
       THEN /\ pc' = "raised"
            /\ raised_by' = "json.dump"
            /\ UNCHANGED <<dataset, calls>>
       ELSE /\ dataset' = json_dumps(results)
            /\ calls' = Log(Call("open.write", "-", "-", "-"))
            /\ pc' = "assistants_create"
            /\ UNCHANGED raised_by
    /\ UNCHANGED <<response, results, assistants, files, assistant, file>>
    /\ UNCHANGED ask_vars

\* with open('data/dataset.json', 'w') as outfile: json.dump(results, outfile)
WriteDataset ==
    /\ pc = "open_write"
    /\ dataset' = json_dumps(results)
    /\ calls' = Log(Call("open.write", "-", "-", "-"))
    /\ pc' = "assistants_create"
    /\ UNCHANGED <<response, results, assistants, files, assistant, file,
                   raised_by>>
    /\ UNCHANGED ask_vars

\* client = OpenAI(...); assistant = client.beta.assistants.create(...)
AssistantsCreate ==
    /\ pc = "assistants_create"
    /\ assistants' = assistants \cup
                       {[id |-> "asst_1", file_ids |-> <<>>, tools |-> {}]}
    /\ assistant' = "asst_1"
    /\ calls' = Log(Call("assistants.create", "-", "asst_1", "-"))
    /\ pc' = "files_create"
    /\ UNCHANGED <<response, results, dataset, files, file, raised_by>>
    /\ UNCHANGED ask_vars

\* file = client.files.create(file=open("data/dataset.json", "rb"), ...)
FilesCreate ==
    /\ pc = "files_create"
    /\ files' = files \cup {[id |-> "file_1", content |-> dataset]}
    /\ file' = "file_1"
    /\ calls' = Log(Call("files.create", "-", "-", "-"))
    /\ pc' = "assistants_update"
    /\ UNCHANGED <<response, results, dataset, assistants, assistant,
                   raised_by>>
    /\ UNCHANGED ask_vars

\* assistant = client.beta.assistants.update(assistant.id, tools=, file_ids=)
AssistantsUpdate ==
    /\ pc = "assistants_update"
    /\ assistants' =
         {IF a.id = assistant
          THEN [a EXCEPT !.file_ids = update_file_ids(file),
                         !.tools = {"retrieval", "code_interpreter"}]
          ELSE a : a \in assistants}
    /\ calls' = Log(Call("assistants.update", "-", assistant, "-"))
    /\ pc' = "threads_create"
    /\ UNCHANGED <<response, results, dataset, files, assistant, file,
                   raised_by>>
    /\ UNCHANGED ask_vars

FallibleSteps == {"open_write", "assistants_create", "files_create",
                  "assistants_update"}

\* an I/O or remote failure of a setup step propagates to the caller
Fail ==
    /\ pc \in FallibleSteps
    /\ pc' = "raised"
    /\ raised_by' = pc
    /\ UNCHANGED setup_vars
    /\ UNCHANGED ask_vars
    /\ UNCHANGED calls

----------------------------------------------------------------------------
(* ask_assistant *)

\* a thread created, and the run triggered with no message posted
ThreadsCreate_NoMessage ==
    /\ pc = "threads_create"
    /\ \E q \in Questions : user_input' = q
    /\ threads' = threads \cup {"thread_1"}
    /\ thread' = "thread_1"
    /\ calls' = Log(Call("threads.create", "thread_1", "-", "-"))
    /\ pc' = "runs_create"
    /\ UNCHANGED <<thread_messages, runs, now, run, messages, output, ret>>
    /\ UNCHANGED setup_vars
    /\ UNCHANGED raised_by

\* thread = client.beta.threads.create()
ThreadsCreate ==
    /\ pc = "threads_create"
    /\ \E q \in Questions : user_input' = q
    /\ threads' = threads \cup {"thread_1"}
    /\ thread' = "thread_1"
    /\ calls' = Log(Call("threads.create", "thread_1", "-", "-"))
    /\ pc' = "messages_create"
    /\ UNCHANGED <<thread_messages, runs, now, run, messages, output, ret>>
    /\ UNCHANGED setup_vars
    /\ UNCHANGED raised_by

\* client.beta.threads.messages.create(thread_id=, role="user", content=)
MessagesCreate ==
    /\ pc = "messages_create"
    /\ thread_messages' = thread_messages \cup
         {[id |-> now, thread_id |-> thread, role |-> "user",
           created_at |-> now,
           content |-> <<[type |-> "text", value |-> user_input]>>]}
    /\ now' = now + 1
    /\ calls' = Log(Call("threads.messages.create", thread, "-", "-"))
    /\ pc' = "runs_create"
    /\ UNCHANGED <<threads, runs, user_input, thread, run, messages, output,
                   ret>>
    /\ UNCHANGED setup_vars
    /\ UNCHANGED raised_by

\* return client.beta.threads.runs.create(thread_id=, assistant_id=)
RunsCreate ==
    /\ pc = "runs_create"
    /\ \E s \in Statuses :
         /\ runs' = runs \cup {[id |-> "run_1", thread_id |-> thread,
                                assistant_id |-> assistant, status |-> s]}
         /\ run' = [id |-> "run_1", status |-> s]
         /\ calls' = Log(Call("threads.runs.create", thread, assistant, s))
    /\ pc' = "wait_on_run"
    /\ UNCHANGED <<threads, thread_messages, now, user_input, thread,
                   messages, output, ret>>
    /\ UNCHANGED setup_vars
    /\ UNCHANGED raised_by

\* while run.status in [...]: run = client.beta.threads.runs.retrieve(...)
WaitOnRunRetrieve ==
    /\ pc = "wait_on_run"
    /\ ShouldPoll(run.status)
    /\ \E r \in runs :
         /\ r.id = run.id
         /\ r.thread_id = thread
         /\ run' = [id |-> r.id, status |-> r.status]
         /\ calls' = Log(Call("threads.runs.retrieve", thread, "-", r.status))
    /\ pc' = "sleep"
    /\ UNCHANGED <<threads, thread_messages, runs, now, user_input, thread,
                   messages, output, ret>>
    /\ UNCHANGED setup_vars
    /\ UNCHANGED raised_by

\* time.sleep(0.5)
Sleep ==
    /\ pc = "sleep"
    /\ pc' = "wait_on_run"
    /\ UNCHANGED setup_vars
    /\ UNCHANGED ask_vars
    /\ UNCHANGED <<raised_by, calls>>

\* a poll loop that gives up after MaxPolls retrieves
WaitOnRunReturn_Capped ==
    /\ pc = "wait_on_run"
    /\ \/ ~ShouldPoll(run.status)
       \/ NumCalls(calls, "threads.runs.retrieve") >= MaxPolls
    /\ pc' = "get_response"
    /\ UNCHANGED setup_vars
    /\ UNCHANGED ask_vars
    /\ UNCHANGED <<raised_by, calls>>

\* a caller that raises on a run that did not complete
WaitOnRunReturn_CheckCompleted ==
    /\ pc = "wait_on_run"
    /\ ~ShouldPoll(run.status)
    /\ IF run.status = "completed"
       THEN pc' = "get_response" /\ UNCHANGED raised_by
       ELSE pc' = "raised" /\ raised_by' = "wait_on_run"
    /\ UNCHANGED setup_vars
    /\ UNCHANGED ask_vars
    /\ UNCHANGED calls

\* the loop condition is false: return run
WaitOnRunReturn ==
    /\ pc = "wait_on_run"
    /\ ~ShouldPoll(run.status)
    /\ pc' = "get_response"
    /\ UNCHANGED setup_vars
    /\ UNCHANGED ask_vars
    /\ UNCHANGED <<raised_by, calls>>

\* messages = get_response(thread)
GetResponse ==
    /\ pc = "get_response"
    /\ messages' = get_response(thread)
    /\ calls' = Log(Call("threads.messages.list", thread, "-", "-"))
    /\ pc' = "pretty_print"
    /\ UNCHANGED <<threads, thread_messages, runs, now, user_input, thread,
                   run, output, ret>>
    /\ UNCHANGED setup_vars
    /\ UNCHANGED raised_by

\* pretty_print(messages); ask_assistant returns None
PrettyPrint ==
    /\ pc = "pretty_print"
    /\ output' = output \o pretty_print(messages)
    /\ ret' = "None"
    /\ pc' = "done"
    /\ UNCHANGED <<threads, thread_messages, runs, now, user_input, thread,
                   run, messages>>
    /\ UNCHANGED setup_vars
    /\ UNCHANGED <<raised_by, calls>>

----------------------------------------------------------------------------
(* The assistant service's own steps *)

\* the remote job moves a run to a later status
RemoteRunStep ==
    /\ \E r \in runs, s \in Statuses :
         /\ s \in NextStatuses(r.status)
         /\ runs' = (runs \ {r}) \cup {[r EXCEPT !.status = s]}
    /\ UNCHANGED <<threads, thread_messages, now, user_input, thread, run,
                   messages, output, ret>>
    /\ UNCHANGED setup_vars
    /\ UNCHANGED <<pc, raised_by, calls>>

\* the remote job appends an assistant message to the run's thread
RemoteAppendMessage ==
    /\ \E r \in runs :
         /\ r.status = "in_progress"
         /\ Cardinality({m \in ThreadMessages(r.thread_id) :
                           m.role = "assistant"}) < MaxAssistantMsgs
         /\ thread_messages' = thread_messages \cup
              {[id |-> now, thread_id |-> r.thread_id, role |-> "assistant",
                created_at |-> now,
                content |-> <<[type |-> "text", value |-> "answer"]>>]}
    /\ now' = now + 1
    /\ UNCHANGED <<threads, runs, user_input, thread, run, messages, output,
                   ret>>
    /\ UNCHANGED setup_vars
    /\ UNCHANGED <<pc, raised_by, calls>>

----------------------------------------------------------------------------
Program ==
    \/ Fetch
    \/ WriteDataset
    \/ AssistantsCreate
    \/ FilesCreate
    \/ AssistantsUpdate
    \/ ThreadsCreate
    \/ MessagesCreate
    \/ RunsCreate
    \/ WaitOnRunRetrieve
    \/ Sleep
    \/ WaitOnRunReturn
    \/ GetResponse
    \/ PrettyPrint

Next ==
    \/ Fetch
    \/ WriteDataset
    \/ AssistantsCreate
    \/ FilesCreate
    \/ AssistantsUpdate
    \/ Fail
    \/ ThreadsCreate
    \/ MessagesCreate
    \/ RunsCreate
    \/ WaitOnRunRetrieve
    \/ Sleep
    \/ WaitOnRunReturn
    \/ GetResponse
    \/ PrettyPrint
    \/ RemoteRunStep
    \/ RemoteAppendMessage

Spec == Init /\ [][Next]_vars

\* The program is one blocking thread: a step whose call has returned is
\* taken.  The remote service owes nothing: a run may stay where it is.
LiveSpec == Init /\ [][Next]_vars /\ WF_vars(Program)

----------------------------------------------------------------------------
(* What the claims speak of *)

NonTerminalStatuses == {"queued", "in_progress"}

TerminalStatuses == {"completed", "failed", "cancelled", "expired",
                     "requires_action"}

SetupSteps == {"open_write", "assistants_create", "files_create",
               "assistants_update"}

InSetup == pc \in {"get_drug_info"} \cup SetupSteps

\* make_assistant has returned
AfterSetup == pc \notin {"get_drug_info", "raised"} \cup SetupSteps

InWait == pc \in {"wait_on_run", "sleep"}

\* wait_on_run has returned
AfterWait == pc \in {"get_response", "pretty_print", "done"}

AskOps == {"threads.create", "threads.messages.create", "threads.runs.create",
           "threads.runs.retrieve", "threads.messages.list"}

IsAskOp(c) == c.op \in AskOps

AskCalls == SelectSeq(calls, IsAskOp)

Ops(log) == [i \in 1..Len(log) |-> log[i].op]

Retrieves == NumCalls(calls, "threads.runs.retrieve")

CreatedStatus ==
    LET i == CHOOSE i \in 1..Len(calls) : calls[i].op = "threads.runs.create"
    IN calls[i].status

RunCreated == NumCalls(calls, "threads.runs.create") > 0

CurrentRunTerminal ==
    \E r \in runs : r.id = run.id /\ r.status \notin NonTerminalStatuses

FetchFailed == response.status_code \notin {0, 200}

SuccessValues == {json_loads(b) : b \in Bodies} \ {JSONDecodeError}

----------------------------------------------------------------------------
\* C1: wait_on_run never returns while the status it last observed is queued
\* or in_progress: once ask_assistant is past wait_on_run (and so whenever
\* the message list has been issued) the run object it holds has a status
\* outside {queued, in_progress}.
C1_ReturnsOnlyTerminal ==
    /\ AfterWait => run.status \in Statuses \ NonTerminalStatuses
    /\ NumCalls(calls, "threads.messages.list") > 0 =>
         run.status \notin NonTerminalStatuses

C1_Witness ==
    /\ pc = "get_response"
    /\ Retrieves >= 2
    /\ run.status = "completed"

\* C2: wait_on_run terminates if and only if the remote Run leaves {queued,
\* in_progress}: once the remote Run is terminal the loop returns; the loop
\* is left only when the remote Run is terminal; and while the Run stays
\* non-terminal for ever the loop retrieves for ever (no cap, no timeout).
C2_TerminatesIffRunLeaves ==
    /\ (InWait /\ CurrentRunTerminal) ~> (pc = "get_response")
    /\ [][(InWait /\ ~InWait') => (CurrentRunTerminal /\ pc' = "get_response")]_vars
    /\ <>[](InWait /\ ~CurrentRunTerminal) => []<>(pc = "sleep")

C2_Witness ==
    /\ pc = "get_response"
    /\ Retrieves = MaxPolls
    /\ CurrentRunTerminal

\* C3: the message sequence ask_assistant obtains is in ascending creation
\* order, holds every message of the thread, and starts with the user
\* message this call submitted, whatever the terminal status and however
\* many assistant messages the remote job appended.
C3_AscendingUserFirst ==
    pc \in {"pretty_print", "done"} =>
        /\ Len(messages) >= 1
        /\ \A i, j \in 1..Len(messages) :
             i < j => messages[i].created_at < messages[j].created_at
        /\ {messages[i] : i \in 1..Len(messages)} = ThreadMessages(thread)
        /\ messages[1].role = "user"
        /\ messages[1].thread_id = thread
        /\ messages[1].content[1].value = user_input
        /\ \A i \in 2..Len(messages) : messages[i].role = "assistant"

C3_Witness ==
    /\ pc = "done"
    /\ Len(messages) = 3
    /\ run.status = "expired"

\* C4: the remote operations of one ask_assistant call come in the order
\* create thread, create the user message on it, create the Run for that
\* thread and the given assistant, zero or more retrieves, one message list;
\* the list comes last and right after a call that reported a terminal
\* status.
C4_CallOrder ==
    LET a == AskCalls
        n == Len(AskCalls)
    IN /\ n >= 1 => /\ a[1].op = "threads.create"
                    /\ SubSeq(calls, Len(calls) - n + 1, Len(calls)) = a
       /\ n >= 2 => /\ a[2].op = "threads.messages.create"
                    /\ a[2].thread = a[1].thread
       /\ n >= 3 => /\ a[3].op = "threads.runs.create"
                    /\ a[3].thread = a[1].thread
                    /\ a[3].assistant = assistant
                    /\ \E m \in ThreadMessages(a[3].thread) : m.role = "user"
       /\ \A i \in 4..n :
            /\ a[i].op \in {"threads.runs.retrieve", "threads.messages.list"}
            /\ a[i].thread = a[1].thread
            /\ a[i].op = "threads.messages.list" =>
                 /\ i = n
                 /\ a[i - 1].op \in {"threads.runs.create",
                                     "threads.runs.retrieve"}
                 /\ a[i - 1].status \in TerminalStatuses
       /\ pc = "done" => n >= 4 /\ a[n].op = "threads.messages.list"

C4_Witness ==
    /\ pc = "done"
    /\ Retrieves >= 2
    /\ Len(AskCalls) = 3 + Retrieves + 1

\* C5: a Run that ends failed, cancelled, expired or requires_action is
\* handled as a completed one: polling stops, the thread's messages are
\* listed and printed, nothing is raised by ask_assistant and it returns
\* None.
C5_TerminalNotDistinguished ==
    /\ pc = "raised" => raised_by \in {"response.json"} \cup SetupSteps
    /\ (pc = "wait_on_run" /\ run.status \in TerminalStatuses) =>
         ENABLED WaitOnRunReturn
    /\ pc = "done" =>
         /\ run.status \in TerminalStatuses
         /\ calls[Len(calls)].op = "threads.messages.list"
         /\ NumCalls(calls, "threads.messages.list") = 1
         /\ output = pretty_print(SortAsc(ThreadMessages(thread)))
         /\ ret = "None"

C5_Witness ==
    /\ pc = "done"
    /\ run.status = "failed"
    /\ Len(output) >= 3

\* C6 as claimed: every Assistant that exists remotely has exactly one file
\* id attached, in every state.
C6_ExactlyOneAlways ==
    \A a \in assistants : Len(a.file_ids) = 1

\* C6 as amended: an Assistant never has more than one file id attached; it
\* has none from assistants.create until assistants.update completes, and
\* exactly one, an uploaded file's, from then on.
C6_AtMostOneThenExactlyOne ==
    /\ \A a \in assistants : Len(a.file_ids) <= 1
    /\ pc \in {"files_create", "assistants_update"} =>
         \A a \in assistants : Len(a.file_ids) = 0
    /\ AfterSetup =>
         /\ assistants # {}
         /\ \A a \in assistants :
              /\ Len(a.file_ids) = 1
              /\ \E f \in files : f.id = a.file_ids[1]

C6_Witness ==
    /\ pc = "threads_create"
    /\ \E a \in assistants : a.id = assistant /\ a.file_ids = <<"file_1">>

\* C7: on a non-200 response get_drug_info has issued exactly one GET, has
\* not raised, and has returned a value that contains the status code and is
\* none of the values it can return on HTTP 200.
C7_ErrorDistinguishable ==
    FetchFailed =>
        /\ NumCalls(calls, "requests.get") = 1
        /\ raised_by # "response.json"
        /\ \E i \in 1..Len(results.val) :
             results.val[i] = ToString(response.status_code)
        /\ results \notin SuccessValues

\* C8 as claimed: wait_on_run has issued at least one retrieve before it
\* returns, whatever status the Run was created with.
C8_AlwaysOneCheck ==
    AfterWait => Retrieves >= 1

\* C8 as amended: wait_on_run has issued at least one retrieve before it
\* returns whenever the Run was created queued or in_progress; a Run created
\* with any other status is returned with no retrieve.
C8_OneCheckIfCreatedNonTerminal ==
    /\ (AfterWait /\ CreatedStatus \in NonTerminalStatuses) => Retrieves >= 1
    /\ (AfterWait /\ CreatedStatus \notin NonTerminalStatuses) => Retrieves = 0

C8_Witness ==
    /\ pc = "get_response"
    /\ CreatedStatus = "queued"
    /\ Retrieves = 1

\* C9: after a non-200 fetch make_assistant goes on as after a successful
\* one: the error value is written to the dataset file, the file is
\* uploaded, the assistant is created and the file attached, in the same
\* order of calls; if it raises, a failed I/O or remote call is the cause.
C9_FetchErrorDoesNotStop ==
    FetchFailed =>
        /\ results.kind = "str"
        /\ pc = "raised" => raised_by \in SetupSteps
        /\ AfterSetup =>
             /\ dataset = <<"\"">> \o results.val \o <<"\"">>
             /\ [id |-> file, content |-> dataset] \in files
             /\ \E a \in assistants :
                  a.id = assistant /\ a.file_ids = <<file>>
             /\ SubSeq(Ops(calls), 1, 5) =
                  <<"requests.get", "open.write", "assistants.create",
                    "files.create", "assistants.update">>

C9_Witness ==
    /\ FetchFailed
    /\ pc = "threads_create"
    /\ \E f \in files : f.content = json_dumps(results)

\* C10: the dataset file is written and uploaded before any assistant is
\* created remotely, so a failed upload leaves no assistant behind.
C10_PackagerBeforeProvisioner ==
    /\ assistants # {} => files # {}
    /\ (pc = "raised" /\ raised_by = "files_create") => assistants = {}

====
